---- MODULE Spec2Model ----
(***************************************************************************)
(* Model of llmware/setup.py: the Setup class with its three static load   *)
(* operations and the shared helper _download_and_unpack, running against  *)
(* a small filesystem.  Each caller walks through the statements of one    *)
(* load operation; every filesystem or storage call is one step.           *)
(***************************************************************************)
EXTENDS Integers, Sequences, FiniteSets, TLC

VARIABLES fs, content, proc, prev, ncalls

vars == <<fs, content, proc, prev, ncalls>>

(***************************************************************************)
(* Bounds                                                                  *)
(***************************************************************************)
MaxCalls == 2

Callers == {1, 2}

MainCaller == CHOOSE c \in Callers : TRUE

(***************************************************************************)
(* Arguments and names                                                     *)
(***************************************************************************)
Omitted == "<omitted>"

OtherSampleFolder == "invoices"

SampleFolderArgs == {Omitted, OtherSampleFolder}

NoArgs == [op |-> "none", over_write |-> FALSE, small_only |-> TRUE,
           sample_folder |-> Omitted]

Args ==
    [op : {"load_sample_files"}, over_write : BOOLEAN,
     small_only : {TRUE}, sample_folder : {Omitted}]
    \cup
    [op : {"load_voice_sample_files"}, over_write : BOOLEAN,
     small_only : BOOLEAN, sample_folder : {Omitted}]
    \cup
    [op : {"load_selected_sample_files"}, over_write : BOOLEAN,
     small_only : {TRUE}, sample_folder : SampleFolderArgs]

\* config.get_llmware_path()
WorkspacePath == <<"llmware_data">>

\* Path.__truediv__
Join(p, name) == Append(p, name)

\* default value of the parameter sample_folder
SampleFolder(a) ==
    IF a.sample_folder = Omitted THEN "microsoft_ir" ELSE a.sample_folder

\* the name joined to workspace_path by each operation
LocalSubdir(a) ==
    CASE a.op = "load_sample_files" -> "sample_files"
      [] a.op = "load_voice_sample_files" ->
            IF a.small_only THEN "voice_sample_files_small"
                            ELSE "voice_sample_files"
      [] OTHER -> SampleFolder(a)

\* variant: the two voice archive names exchanged
FolderName_Swapped(a) ==
    CASE a.op = "load_sample_files" -> "sample_files"
      [] a.op = "load_voice_sample_files" ->
            IF a.small_only THEN "voice_all" ELSE "voice_small"
      [] OTHER -> SampleFolder(a)

\* the folder_name handed to _download_and_unpack by each operation
FolderName(a) ==
    CASE a.op = "load_sample_files" -> "sample_files"
      [] a.op = "load_voice_sample_files" ->
            IF a.small_only THEN "voice_small" ELSE "voice_all"
      [] OTHER -> SampleFolder(a)

SampleFilesPath(a) == Join(WorkspacePath, LocalSubdir(a))

RemoteZip(folder_name) == folder_name \o ".zip"

LocalZip(sample_files_path, folder_name) ==
    Join(sample_files_path, RemoteZip(folder_name))

SamplePaths == {SampleFilesPath(a) : a \in Args}

ZipPaths == {LocalZip(SampleFilesPath(a), FolderName(a)) : a \in Args}

AllPaths == {WorkspacePath} \cup SamplePaths \cup ZipPaths

(***************************************************************************)
(* Filesystem primitives                                                   *)
(***************************************************************************)
Kinds == {"absent", "dir", "file"}

Exists(f, p) == f[p] # "absent"

Parent(p) == SubSeq(p, 1, Len(p) - 1)

\* Path.mkdir(parents=True, exist_ok=True): TRUE when it raises FileExistsError
MkdirRaises(f, p) == f[p] = "file"

RECURSIVE MkdirParents(_, _)
MkdirParents(f, p) ==
    IF Len(p) = 0 \/ p \notin DOMAIN f \/ f[p] # "absent" THEN f
    ELSE [MkdirParents(f, Parent(p)) EXCEPT ![p] = "dir"]

(***************************************************************************)
(* Results, errors and the call log                                        *)
(***************************************************************************)
NoResult == [kind |-> "none", value |-> <<>>, error |-> "", cause |-> ""]

Return(p) == [kind |-> "return", value |-> p, error |-> "", cause |-> ""]

\* an exception that propagates to the caller as it is
Raise(e) == [kind |-> "raise", value |-> <<>>, error |-> e, cause |-> ""]

\* variant: RuntimeError raised without "from e"
RaiseFrom_NoCause(e) ==
    [kind |-> "raise", value |-> <<>>, error |-> "RuntimeError", cause |-> ""]

\* variant: the handler re-raises the original error
RaiseFrom_Unwrapped(e) ==
    [kind |-> "raise", value |-> <<>>, error |-> e, cause |-> ""]

\* raise RuntimeError(...) from e
RaiseFrom(e) ==
    [kind |-> "raise", value |-> <<>>, error |-> "RuntimeError", cause |-> e]

FetchErrors == {"ClientError", "EndpointConnectionError"}

Event(name, path, key) == [call |-> name, path |-> path, key |-> key]

Count(log, name) == Cardinality({i \in 1..Len(log) : log[i].call = name})

Idle == [pc |-> "idle", args |-> NoArgs, sample_files_path |-> <<>>,
         ws_existed |-> FALSE, log |-> <<>>, inner |-> "",
         result |-> NoResult]

(***************************************************************************)
(* Initial state: no call made yet.  The workspace root is absent, or it   *)
(* exists and every sample path under it holds the same kind of entry      *)
(* (the operations touch only their own sample path).                      *)
(***************************************************************************)
InitialContents == {"full"}

Init ==
    /\ \E root \in {"absent", "dir"} : \E k \in Kinds :
          /\ root = "absent" => k = "absent"
          /\ fs = [p \in AllPaths |->
                     IF p = WorkspacePath THEN root
                     ELSE IF p \in SamplePaths THEN k ELSE "absent"]
          /\ \E full \in InitialContents :
                content = [p \in SamplePaths |->
                             IF k = "dir" THEN full ELSE "empty"]
    /\ proc = [c \in Callers |-> Idle]
    /\ prev = [c \in Callers |-> Idle]
    /\ ncalls = 0

(***************************************************************************)
(* Collaborators outside setup.py                                          *)
(***************************************************************************)
\* LLMWareConfig.setup_llmware_workspace(): creates the workspace root
setup_llmware_workspace(f) == MkdirParents(f, WorkspacePath)

\* CloudBucketManager.pull_file_from_public_s3 opens the local file
PullOpens(f, local_zip) == [f EXCEPT ![local_zip] = "file"]

\* a failed pull leaves the local file or removes it
PullFailureLeaves(f, local_zip) ==
    {f, [f EXCEPT ![local_zip] = "absent"]}

(***************************************************************************)
(* The load operations, statement by statement                             *)
(***************************************************************************)
Self(c) == proc[c]

MyZip(c) == LocalZip(Self(c).sample_files_path, FolderName(Self(c).args))

Logged(c, name, path, key) == Append(Self(c).log, Event(name, path, key))

\* entry into load_*: lines 117-120, 154-158, 193-196
Call(c, a) ==
    /\ Self(c).pc \in {"idle", "done"}
    /\ ncalls < MaxCalls
    /\ ncalls' = ncalls + 1
    /\ prev' = IF Self(c).pc = "done" THEN [prev EXCEPT ![c] = Self(c)]
                                      ELSE prev
    /\ proc' = [proc EXCEPT ![c] =
                  [pc |-> "workspace", args |-> a,
                   sample_files_path |-> SampleFilesPath(a),
                   ws_existed |-> Exists(fs, WorkspacePath),
                   log |-> <<>>, inner |-> "", result |-> NoResult]]
    /\ UNCHANGED <<fs, content>>

\* variant: the workspace is set up on every call
NeedsSetup_Always(f) == TRUE

\* if not workspace_path.exists():
NeedsSetup(f) == ~Exists(f, WorkspacePath)

\* ... config.setup_llmware_workspace()
CheckWorkspace(c) ==
    /\ Self(c).pc = "workspace"
    /\ IF NeedsSetup(fs)
       THEN /\ fs' = setup_llmware_workspace(fs)
            /\ proc' = [proc EXCEPT ![c].pc = "exists",
                          ![c].log = Logged(c, "setup_llmware_workspace",
                                            WorkspacePath, "")]
       ELSE /\ fs' = fs
            /\ proc' = [proc EXCEPT ![c].pc = "exists"]
    /\ UNCHANGED <<content, prev, ncalls>>

\* variant: "and over_write" instead of "and not over_write"
ShortCircuit_Inverted(f, path, over_write) == Exists(f, path) /\ over_write

\* variant: the over_write flag is not consulted
ShortCircuit_IgnoresOverwrite(f, path, over_write) == Exists(f, path)

\* if sample_files_path.exists() and not over_write: return sample_files_path
ShortCircuit(f, path, over_write) == Exists(f, path) /\ ~over_write

CheckExists(c) ==
    /\ Self(c).pc = "exists"
    /\ IF ShortCircuit(fs, Self(c).sample_files_path, Self(c).args.over_write)
       THEN proc' = [proc EXCEPT ![c].pc = "done",
                        ![c].result = Return(Self(c).sample_files_path)]
       ELSE proc' = [proc EXCEPT ![c].pc = "mkdir"]
    /\ UNCHANGED <<fs, content, prev, ncalls>>

\* sample_files_path.mkdir(parents=True, exist_ok=True)
Mkdir(c) ==
    /\ Self(c).pc = "mkdir"
    /\ LET path == Self(c).sample_files_path
           log == Logged(c, "mkdir", path, "")
       IN IF MkdirRaises(fs, path)
          THEN /\ fs' = fs
               /\ proc' = [proc EXCEPT ![c].pc = "done", ![c].log = log,
                             ![c].result = Raise("FileExistsError")]
          ELSE /\ fs' = MkdirParents(fs, path)
               /\ proc' = [proc EXCEPT ![c].pc = "pull", ![c].log = log]
    /\ UNCHANGED <<content, prev, ncalls>>

\* variant: a lock file guards the download
PullBegin_Locked(c) ==
    /\ Self(c).pc = "pull"
    /\ \A d \in Callers \ {c} :
          ~(proc[d].pc = "pulling" /\ MyZip(d) = MyZip(c))
    /\ fs' = PullOpens(fs, MyZip(c))
    /\ proc' = [proc EXCEPT ![c].pc = "pulling",
                  ![c].log = Logged(c, "pull_file_from_public_s3", MyZip(c),
                                    RemoteZip(FolderName(Self(c).args)))]
    /\ UNCHANGED <<content, prev, ncalls>>

\* _download_and_unpack: bucket_manager.pull_file_from_public_s3(...) starts
PullBegin(c) ==
    /\ Self(c).pc = "pull"
    /\ fs' = PullOpens(fs, MyZip(c))
    /\ proc' = [proc EXCEPT ![c].pc = "pulling",
                  ![c].log = Logged(c, "pull_file_from_public_s3", MyZip(c),
                                    RemoteZip(FolderName(Self(c).args)))]
    /\ UNCHANGED <<content, prev, ncalls>>

\* except Exception as e: raise RuntimeError(...) from e
Failed(c, e) ==
    [proc EXCEPT ![c].pc = "done", ![c].inner = e, ![c].result = RaiseFrom(e)]

\* the pull returns
PullOk(c) ==
    /\ Self(c).pc = "pulling"
    /\ fs' = PullOpens(fs, MyZip(c))
    /\ proc' = [proc EXCEPT ![c].pc = "unpack"]
    /\ UNCHANGED <<content, prev, ncalls>>

\* variant: the handler removes the sample directory before re-raising
PullFail_Cleanup(c) ==
    /\ Self(c).pc = "pulling"
    /\ \E e \in FetchErrors : proc' = Failed(c, e)
    /\ fs' = [fs EXCEPT ![MyZip(c)] = "absent",
                        ![Self(c).sample_files_path] = "absent"]
    /\ UNCHANGED <<content, prev, ncalls>>

\* the pull raises
PullFail(c) ==
    /\ Self(c).pc = "pulling"
    /\ \E e \in FetchErrors : proc' = Failed(c, e)
    /\ fs' \in PullFailureLeaves(fs, MyZip(c))
    /\ UNCHANGED <<content, prev, ncalls>>

\* shutil.unpack_archive(str(local_zip), str(sample_files_path), "zip")
UnpackLog(c) == Logged(c, "unpack_archive", Self(c).sample_files_path, "")

UnpackOk(c) ==
    /\ Self(c).pc = "unpack"
    /\ fs[MyZip(c)] = "file"
    /\ content' = [content EXCEPT ![Self(c).sample_files_path] = "full"]
    /\ proc' = [proc EXCEPT ![c].pc = "unlink", ![c].log = UnpackLog(c)]
    /\ UNCHANGED <<fs, prev, ncalls>>

\* not a zip file (or no file at all): nothing is extracted
UnpackReadError(c) ==
    /\ Self(c).pc = "unpack"
    /\ proc' = [Failed(c, "ReadError") EXCEPT ![c].log = UnpackLog(c)]
    /\ UNCHANGED <<fs, content, prev, ncalls>>

\* the extraction stops midway
UnpackOSError(c) ==
    /\ Self(c).pc = "unpack"
    /\ fs[MyZip(c)] = "file"
    /\ content' = [content EXCEPT ![Self(c).sample_files_path] = "partial"]
    /\ proc' = [Failed(c, "OSError") EXCEPT ![c].log = UnpackLog(c)]
    /\ UNCHANGED <<fs, prev, ncalls>>

\* variant: the temporary archive is kept
UnlinkFile_Kept(f, p) == f

\* Path.unlink() of an existing file
UnlinkFile(f, p) == [f EXCEPT ![p] = "absent"]

\* local_zip.unlink(), then return sample_files_path
Unlink(c) ==
    /\ Self(c).pc = "unlink"
    /\ LET log == Logged(c, "unlink", MyZip(c), "")
       IN IF fs[MyZip(c)] = "file"
          THEN /\ fs' = UnlinkFile(fs, MyZip(c))
               /\ proc' = [proc EXCEPT ![c].pc = "done", ![c].log = log,
                             ![c].result = Return(Self(c).sample_files_path)]
          ELSE /\ fs' = fs
               /\ proc' = [Failed(c, "FileNotFoundError")
                             EXCEPT ![c].log = log]
    /\ UNCHANGED <<content, prev, ncalls>>

\* the statements after entry
Run(c) ==
    \/ CheckWorkspace(c)
    \/ CheckExists(c)
    \/ Mkdir(c)
    \/ PullBegin(c)
    \/ PullOk(c)
    \/ PullFail(c)
    \/ UnpackOk(c)
    \/ UnpackReadError(c)
    \/ UnpackOSError(c)
    \/ Unlink(c)

Step(c) ==
    \/ \E a \in Args : Call(c, a)
    \/ Run(c)

\* one caller, one call after the other (single-threaded use)
Next == Step(MainCaller)

Spec == Init /\ [][Next]_vars

\* a call that targets the sample set the other callers work on
Race(c, a) ==
    /\ \A d \in Callers \ {c} :
          proc[d].pc # "idle" =>
              proc[d].sample_files_path = SampleFilesPath(a)
    /\ Call(c, a)

StepConc(c) ==
    \/ \E a \in Args : Race(c, a)
    \/ Run(c)

\* two callers whose calls interleave over one sample set
NextConc == \E c \in Callers : StepConc(c)

SpecConc == Init /\ [][NextConc]_vars

TypeOK ==
    /\ fs \in [AllPaths -> Kinds]
    /\ ncalls \in 0..MaxCalls
    /\ \A c \in Callers : proc[c].pc \in
         {"idle", "workspace", "exists", "mkdir", "pull", "pulling",
          "unpack", "unlink", "done"}

(***************************************************************************)
(* Vocabulary of the properties                                            *)
(***************************************************************************)
Done(c) == proc[c].pc = "done"

Returned(c) == Done(c) /\ proc[c].result.kind = "return"

Raised(c) == Done(c) /\ proc[c].result.kind = "raise"

Pulls(log) == Count(log, "pull_file_from_public_s3")

CallNames(log) == [i \in 1..Len(log) |-> log[i].call]

IsPrefix(s, t) == Len(s) <= Len(t) /\ s = SubSeq(t, 1, Len(s))

\* the current call repeats the caller's previous call, without overwrite
Repeats(c) ==
    /\ prev[c].pc = "done"
    /\ proc[c].pc # "idle"
    /\ proc[c].args = prev[c].args
    /\ ~proc[c].args.over_write

(***************************************************************************)
(* C1: a load operation called twice in a row with the same arguments and  *)
(* over_write=False fetches at most during the first call; the second call *)
(* returns the path of the first and performs no fetch, no extraction and  *)
(* no deletion.                                                            *)
(***************************************************************************)
C1_Idempotence ==
    \A c \in Callers :
        Repeats(c) =>
            /\ Pulls(proc[c].log) = 0
            /\ Count(proc[c].log, "unpack_archive") = 0
            /\ Count(proc[c].log, "unlink") = 0
            /\ Pulls(prev[c].log) <= 1
            /\ Done(c) =>
                 /\ proc[c].result.kind = "return"
                 /\ proc[c].result.value = prev[c].sample_files_path
                 /\ prev[c].result.kind = "return" =>
                        proc[c].result.value = prev[c].result.value

C1_Witness ==
    \E c \in Callers :
        /\ Repeats(c)
        /\ Returned(c)
        /\ prev[c].result.kind = "return"
        /\ Pulls(prev[c].log) = 1

ExpectedNames(a) ==
    CASE a.op = "load_sample_files" -> <<"sample_files.zip", "sample_files">>
      [] a.op = "load_voice_sample_files" /\ a.small_only ->
            <<"voice_small.zip", "voice_sample_files_small">>
      [] a.op = "load_voice_sample_files" /\ ~a.small_only ->
            <<"voice_all.zip", "voice_sample_files">>
      [] a.op = "load_selected_sample_files" /\ a.sample_folder = Omitted ->
            <<"microsoft_ir.zip", "microsoft_ir">>
      [] OTHER -> <<a.sample_folder \o ".zip", a.sample_folder>>

C3_Naming ==
    \A c \in Callers :
        LET log == proc[c].log
            key == ExpectedNames(proc[c].args)[1]
            dir == <<"llmware_data", ExpectedNames(proc[c].args)[2]>>
        IN Pulls(log) > 0 =>
             /\ \A i \in 1..Len(log) :
                  /\ log[i].call = "pull_file_from_public_s3" =>
                        log[i].key = key /\ log[i].path = dir \o <<key>>
                  /\ log[i].call = "mkdir" => log[i].path = dir
                  /\ log[i].call = "unpack_archive" => log[i].path = dir
             /\ Returned(c) => proc[c].result.value = dir
             /\ fs[dir] = "dir"

C3_Witness ==
    \E c \in Callers :
        /\ Returned(c)
        /\ Pulls(proc[c].log) = 1
        /\ proc[c].args.op = "load_voice_sample_files"
        /\ ~proc[c].args.small_only

(***************************************************************************)
(* C4: when the storage fetch or the extraction raises, the load operation *)
(* returns no path: it raises RuntimeError whose cause is the original     *)
(* error, and the fetch is not retried.                                    *)
(***************************************************************************)
C4_FailureWrapping ==
    \A c \in Callers :
        proc[c].inner \in FetchErrors \cup {"ReadError", "OSError"} =>
            /\ Done(c)
            /\ proc[c].result.kind = "raise"
            /\ proc[c].result.error = "RuntimeError"
            /\ proc[c].result.cause = proc[c].inner
            /\ Pulls(proc[c].log) = 1

C4_Witness ==
    \E c \in Callers :
        /\ Raised(c)
        /\ proc[c].inner \in FetchErrors
        /\ Count(proc[c].log, "unpack_archive") = 0

(***************************************************************************)
(* C5 as stated: every error a load operation raises, from any step, is    *)
(* the uniform RuntimeError wrapping the original error.                   *)
(***************************************************************************)
C5_Original ==
    \A c \in Callers :
        Raised(c) =>
            /\ proc[c].result.error = "RuntimeError"
            /\ proc[c].result.cause # ""

(***************************************************************************)
(* C5 amended: an error raised by the fetch, the extraction or the         *)
(* deletion of the temporary file reaches the caller as RuntimeError       *)
(* wrapping the original error; an error raised by the directory creation  *)
(* reaches the caller as it is (FileExistsError), before any fetch.        *)
(***************************************************************************)
C5_ErrorKinds ==
    \A c \in Callers :
        Raised(c) =>
            LET log == proc[c].log
                last == log[Len(log)].call
            IN /\ Len(log) > 0
               /\ IF last = "mkdir"
                  THEN /\ proc[c].result.error = "FileExistsError"
                       /\ proc[c].result.cause = ""
                       /\ Pulls(log) = 0
                  ELSE /\ last \in {"pull_file_from_public_s3",
                                    "unpack_archive", "unlink"}
                       /\ proc[c].result.error = "RuntimeError"
                       /\ proc[c].result.cause = proc[c].inner
                       /\ proc[c].inner # ""

C5_Witness ==
    \E c \in Callers :
        /\ Raised(c)
        /\ proc[c].result.error = "FileExistsError"
        /\ proc[c].args.over_write

(***************************************************************************)
(* C6: when a load operation that downloaded returns normally, the         *)
(* temporary archive <local_path>/<archive_name>.zip does not exist; the   *)
(* deletion comes only after the fetch and then the extraction have both   *)
(* succeeded, in that order.                                               *)
(***************************************************************************)
C6_Cleanup ==
    \A c \in Callers :
        LET log == proc[c].log
            n == Len(log)
        IN /\ (Returned(c) /\ Pulls(log) > 0) =>
                /\ fs[MyZip(c)] = "absent"
                /\ Count(log, "unlink") = 1
           /\ Count(log, "unlink") > 0 =>
                /\ n >= 3
                /\ SubSeq(CallNames(log), n - 2, n) =
                     <<"pull_file_from_public_s3", "unpack_archive", "unlink">>
                /\ log[n].path = log[n - 2].path
                /\ proc[c].inner = ""
                /\ content[proc[c].sample_files_path] = "full"

C6_Witness ==
    \E c \in Callers :
        /\ Returned(c)
        /\ Pulls(proc[c].log) = 1
        /\ fs[MyZip(c)] = "absent"

(***************************************************************************)
(* C7 as stated: whenever a load operation returns normally, the returned  *)
(* path is workspace root / local subdirectory and a directory exists at   *)
(* that path.                                                              *)
(***************************************************************************)
C7_Original ==
    \A c \in Callers :
        Returned(c) =>
            /\ proc[c].result.value =
                 <<"llmware_data", ExpectedNames(proc[c].args)[2]>>
            /\ fs[proc[c].result.value] = "dir"

(***************************************************************************)
(* C8: with no workspace root, load_sample_files performs, in this order   *)
(* and each once, workspace initialization, creation of the sample         *)
(* directory, the fetch of sample_files.zip into it, the extraction into   *)
(* it, the deletion of the zip, and returns the sample directory; with a   *)
(* workspace root present it does not initialize the workspace.            *)
(***************************************************************************)
FreshSequence ==
    LET root == <<"llmware_data">>
        dir == <<"llmware_data", "sample_files">>
        zip == <<"llmware_data", "sample_files", "sample_files.zip">>
    IN << [call |-> "setup_llmware_workspace", path |-> root, key |-> ""],
          [call |-> "mkdir", path |-> dir, key |-> ""],
          [call |-> "pull_file_from_public_s3", path |-> zip,
           key |-> "sample_files.zip"],
          [call |-> "unpack_archive", path |-> dir, key |-> ""],
          [call |-> "unlink", path |-> zip, key |-> ""] >>

C8_FreshWorkspace ==
    \A c \in Callers :
        proc[c].args.op = "load_sample_files" =>
            IF proc[c].ws_existed
            THEN Count(proc[c].log, "setup_llmware_workspace") = 0
            ELSE /\ IsPrefix(proc[c].log, FreshSequence)
                 /\ proc[c].pc # "workspace" => Len(proc[c].log) >= 1
                 /\ Done(c) => Pulls(proc[c].log) = 1
                 /\ Returned(c) =>
                      /\ proc[c].log = FreshSequence
                      /\ proc[c].result.value =
                           <<"llmware_data", "sample_files">>
                      /\ fs[<<"llmware_data">>] = "dir"

C8_Witness ==
    \E c \in Callers :
        /\ Returned(c)
        /\ proc[c].args.op = "load_sample_files"
        /\ ~proc[c].ws_existed
        /\ Len(proc[c].log) = 5

(***************************************************************************)
(* C9: after a load operation fails in fetch or extraction, the sample     *)
(* directory (and the temporary archive an extraction failure leaves)      *)
(* stays in place, so the following call of the same operation with        *)
(* over_write=False returns the path, raises nothing and fetches nothing,  *)
(* although the directory was never populated.                             *)
(***************************************************************************)
FailedDownload(r) ==
    /\ r.pc = "done"
    /\ r.result.error = "RuntimeError"
    /\ r.inner \in FetchErrors \cup {"ReadError", "OSError"}

C9_PartialStatePresent ==
    \A c \in Callers :
        /\ FailedDownload(proc[c]) =>
              /\ fs[proc[c].sample_files_path] = "dir"
              /\ proc[c].inner \in {"ReadError", "OSError"} =>
                     fs[MyZip(c)] = "file"
        /\ ( /\ FailedDownload(prev[c])
             /\ proc[c].pc # "idle"
             /\ proc[c].args.op = prev[c].args.op
             /\ proc[c].sample_files_path = prev[c].sample_files_path
             /\ ~proc[c].args.over_write ) =>
                /\ Pulls(proc[c].log) = 0
                /\ Count(proc[c].log, "mkdir") = 0
                /\ Done(c) =>
                     /\ proc[c].result.kind = "return"
                     /\ proc[c].result.value = prev[c].sample_files_path

C9_Witness ==
    \E c \in Callers :
        /\ FailedDownload(prev[c])
        /\ ~prev[c].args.over_write
        /\ Returned(c)
        /\ proc[c].args = prev[c].args
        /\ content[proc[c].sample_files_path] # "full"

(***************************************************************************)
(* C10: nothing excludes one caller from another.  From an absent sample   *)
(* directory two concurrent calls of one load operation with               *)
(* over_write=False can both pass the existence check, both create the     *)
(* directory and both fetch to the same temporary file at once: a caller  *)
(* past the existence check is never held back by the other caller.        *)
(***************************************************************************)
C10_NoMutualExclusion ==
    \A c \in Callers :
        /\ proc[c].pc = "exists" => ENABLED CheckExists(c)
        /\ proc[c].pc = "mkdir" => ENABLED Mkdir(c)
        /\ proc[c].pc = "pull" => ENABLED PullBegin(c)
        /\ proc[c].pc = "pulling" => ENABLED PullOk(c)

C10_Witness ==
    \E c, d \in Callers :
        /\ c # d
        /\ proc[c].pc = "pulling" /\ proc[d].pc = "pulling"
        /\ MyZip(c) = MyZip(d)
        /\ proc[c].args = proc[d].args
        /\ ~proc[c].args.over_write
        /\ Count(proc[c].log, "mkdir") = 1 /\ Count(proc[d].log, "mkdir") = 1

====
